---- MODULE Spec2Model ----
(***************************************************************************)
(* The in-depth query tree visitors of Analyzer/InDepthQueryTreeVisitor.h: *)
(*   InDepthQueryTreeVisitor             (plain depth-first visitor)       *)
(*   InDepthQueryTreeVisitorWithContext  (context-tracking visitor)        *)
(*   InDepthQueryTreeConditionalVisitor  (conditional visitor)             *)
(*   QueryTreeVisitor                    (rule-application visitor)        *)
(*                                                                         *)
(* The recursion of visit/visitChildren is modelled with an explicit call  *)
(* stack: one frame per active visit call, holding its node, its position  *)
(* (pc), the position of its range-for over the children and its locals.   *)
(* The customization points of the derived class (visitImpl, leaveImpl,    *)
(* needChildVisit, needApply, apply, the condition) are arbitrary code:    *)
(* each call returns any value of its type or throws.  Every call is       *)
(* appended to `trace`, a history variable the properties are stated on.   *)
(*                                                                         *)
(* FullSortingMergeJoin::checkTypesOfKeys (Interpreters) is modelled as a  *)
(* second state machine over variables of its own, JoinSpec.               *)
(*                                                                         *)
(* Spec drives any of the four visitors over a tree that does not change;  *)
(* WithContextSpec and QueryTreeSpec drive one class each; MutatingSpec    *)
(* drives the non-const visitors with handlers that change the tree.       *)
(***************************************************************************)
EXTENDS Integers, Sequences, FiniteSets, TLC

\* ---------------------------------------------------------------- bounds
MaxNodes == 3
MaxInitialDepth == 1
MaxClauses == 2
MaxKeys == 2

\* ------------------------------------------------------------------ data
\* A null QueryTreeNodePtr in a child slot.
Null == 0

Nodes == 1 .. MaxNodes

\* The node the caller hands to the top-level visit.
Root == 1

\* Context handles are opaque to the visitors (they are only copied, never
\* inspected): the constructor's context is Ctx(0), the context attached to
\* the scope node n is Ctx(n).
Ctx(i) == <<"ctx", i>>

\* QueryNode::getContext / UnionNode::getContext of the node n.
getContext(n) == Ctx(n)

NodeTypes == {"QueryNode", "UnionNode", "TableFunctionNode", "Other"}

Visitors == {"InDepthQueryTreeVisitor", "InDepthQueryTreeVisitorWithContext",
             "InDepthQueryTreeConditionalVisitor", "QueryTreeVisitor"}

VARIABLES
    children,               \* node -> sequence of child slots (getChildren())
    parent_of,              \* node -> the node that holds it in a slot, or Null
    node_type,              \* node -> its node type (what as<T>() answers)
    unresolved_indexes,     \* node -> getUnresolvedArgumentIndexes() (0-based)
    visitor,                \* the class of the visitor the caller drives
    traverse_top_to_bottom, \* shouldTraverseTopToBottom() / Impl::TOP_TO_BOTTOM
    condition,              \* the nodes the Condition functor answers true on
    initial_subquery_depth, \* the constructor's initial_subquery_depth
    current_context,        \* the visitor's current_context member
    subquery_depth,         \* the visitor's subquery_depth member
    stack,                  \* the active visit calls, outermost first
    status,                 \* idle, running, throwing, done, failed
    trace                   \* every call made so far, in order

VARIABLES
    clauses,                \* table_join->getClauses(): the key types of each
    join_pc,                \* where checkTypesOfKeys is
    key_index,              \* i of the loop over the keys
    compared,               \* how many key pairs have been compared
    error_code              \* the ErrorCodes value of the exception thrown

join_vars == <<clauses, join_pc, key_index, compared, error_code>>

traversal_vars == <<children, parent_of, node_type, unresolved_indexes, visitor,
                    traverse_top_to_bottom, condition, initial_subquery_depth,
                    current_context, subquery_depth, stack, status, trace>>

vars == <<traversal_vars, join_vars>>

\* What no step of a traversal of an unchanging tree writes.
tree_vars == <<children, parent_of, node_type, unresolved_indexes, visitor,
               traverse_top_to_bottom, condition, initial_subquery_depth, join_vars>>

\* ------------------------------------------------------------- the trees
Range(s) == {s[i] : i \in 1 .. Len(s)}

RECURSIVE SortedSeq(_)
SortedSeq(S) ==
    IF S = {} THEN <<>>
    ELSE LET m == CHOOSE x \in S : \A y \in S : x <= y
         IN <<m>> \o SortedSeq(S \ {m})

\* Every tree over Nodes rooted at Root: the parent of n is a smaller node.
ParentMaps == {p \in [Nodes \ {Root} -> Nodes] : \A n \in Nodes \ {Root} : p[n] < n}

\* Where null slots sit among the children of every node: nowhere, or before
\* the first child ("leading") and after the last one ("trailing"); a node
\* without children then holds only null slots.
NullPatterns == {{}, {"leading", "trailing"}}

\* The child slots of every node for parent map p and null pattern np.
ChildSlots(p, np) ==
    [n \in Nodes |->
        (IF "leading" \in np THEN <<Null>> ELSE <<>>)
        \o SortedSeq({c \in Nodes \ {Root} : p[c] = n})
        \o (IF "trailing" \in np THEN <<Null>> ELSE <<>>)]

TreeShapes == {ChildSlots(p, np) : p \in ParentMaps, np \in NullPatterns}

\* The node types a visitor tells apart: the plain and the conditional visitor
\* never look at the type, the context-tracking visitor only tells scope nodes.
TypesSeenBy(v) ==
    CASE v = "InDepthQueryTreeVisitorWithContext" -> {"QueryNode", "UnionNode", "Other"}
      [] v = "QueryTreeVisitor" -> NodeTypes
      [] OTHER -> {"Other"}

\* ------------------------------------------------------ tree navigation
ChildrenOf(n) == IF n = Null THEN <<>> ELSE children[n]

ChildNodes(n) == Range(ChildrenOf(n)) \ {Null}

ParentOf(n) == parent_of[n]

IsRoot(n) == ParentOf(n) = Null

\* The nodes on the path from the traversal root to n, n included.
RECURSIVE PathTo(_)
PathTo(n) == IF n = Null \/ IsRoot(n) THEN {n} ELSE {n} \cup PathTo(ParentOf(n))

ProperAncestors(n) == PathTo(n) \ {n}

\* The 0-based slot of the parent that holds n.
SlotOf(n) == CHOOSE i \in 0 .. (Len(children[ParentOf(n)]) - 1) : children[ParentOf(n)][i + 1] = n

NodeTypeOf(n) == IF n = Null THEN "Other" ELSE node_type[n]

IsScope(n) == NodeTypeOf(n) \in {"QueryNode", "UnionNode"}


\* ------------------------------------------------------- frames, events
\* The body of visit as the sequence of its steps, per class and order.
\* visit ignoring shouldTraverseTopToBottom.
InDepth_visit_steps_top_down_only == <<"visitImpl", "visitChildren", "return">>

InDepth_visit_steps ==
    IF traverse_top_to_bottom
    THEN <<"visitImpl", "visitChildren", "return">>
    ELSE <<"visitChildren", "visitImpl", "return">>

\* visit ignoring shouldTraverseTopToBottom.
WithContext_visit_steps_top_down_only ==
    <<"visitImpl", "visitChildren", "leaveImpl", "return">>

\* visit calling leaveImpl before it descends.
WithContext_visit_steps_leave_before_children ==
    IF traverse_top_to_bottom
    THEN <<"visitImpl", "leaveImpl", "visitChildren", "return">>
    ELSE <<"leaveImpl", "visitChildren", "visitImpl", "return">>

WithContext_visit_steps ==
    IF traverse_top_to_bottom
    THEN <<"visitImpl", "visitChildren", "leaveImpl", "return">>
    ELSE <<"visitChildren", "visitImpl", "leaveImpl", "return">>

\* visit ignoring TOP_TO_BOTTOM.
QueryTree_visit_steps_top_down_only == <<"apply", "visitChildren", "return">>

QueryTree_visit_steps ==
    IF traverse_top_to_bottom
    THEN <<"apply", "visitChildren", "return">>
    ELSE <<"visitChildren", "apply", "return">>

\* InDepthQueryTreeConditionalVisitor derives from InDepthQueryTreeVisitor and
\* runs its visit.
StepsOf(v) ==
    CASE v = "InDepthQueryTreeVisitorWithContext" -> WithContext_visit_steps
      [] v = "QueryTreeVisitor" -> QueryTree_visit_steps
      [] OTHER -> InDepth_visit_steps

Top == stack[Len(stack)]

Pc(f) == StepsOf(f.visitor)[f.step]

Advance(f) == [f EXCEPT !.step = @ + 1]

NextSlot(f) == [f EXCEPT !.index = @ + 1]

SetTop(f) == [stack EXCEPT ![Len(stack)] = f]

\* visit without the UnionNode branch.
WithContext_entry_no_union(n) ==
    [current_context |->
        IF NodeTypeOf(n) = "QueryNode" THEN getContext(n) ELSE current_context,
     subquery_depth |-> subquery_depth + 1]

\* visit counting only scope nodes.
WithContext_entry_scope_depth(n) ==
    [current_context |->
        IF NodeTypeOf(n) = "QueryNode" THEN getContext(n)
        ELSE IF NodeTypeOf(n) = "UnionNode" THEN getContext(n)
        ELSE current_context,
     subquery_depth |-> IF IsScope(n) THEN subquery_depth + 1 ELSE subquery_depth]

\* The visitor's members as a visit call of class v on node n sets them before
\* its first step.
WithContext_entry(n) ==
    [current_context |->
        IF NodeTypeOf(n) = "QueryNode" THEN getContext(n)
        ELSE IF NodeTypeOf(n) = "UnionNode" THEN getContext(n)
        ELSE current_context,
     subquery_depth |-> subquery_depth + 1]

QueryTree_entry(n) ==
    [current_context |->
        IF NodeTypeOf(n) = "QueryNode" THEN getContext(n)
        ELSE IF NodeTypeOf(n) = "UnionNode" THEN getContext(n)
        ELSE current_context,
     subquery_depth |-> subquery_depth]

InDepth_entry(n) ==
    [current_context |-> current_context, subquery_depth |-> subquery_depth]

EntryOf(v, n) ==
    CASE v = "InDepthQueryTreeVisitorWithContext" -> WithContext_entry(n)
      [] v = "QueryTreeVisitor" -> QueryTree_entry(n)
      [] OTHER -> InDepth_entry(n)

\* SCOPE_EXIT that does not put the saved context back.
WithContext_SCOPE_EXIT_keeps_context(f) ==
    [current_context |-> current_context,
     subquery_depth |-> subquery_depth - 1]

\* The visitor's members as the SCOPE_EXIT of the visit call f leaves them.
WithContext_SCOPE_EXIT(f) ==
    [current_context |-> f.current_scope_context_ptr,
     subquery_depth |-> subquery_depth - 1]

\* SCOPE_EXIT that does not put the saved context back.
QueryTree_SCOPE_EXIT_keeps_context(f) ==
    [current_context |-> current_context, subquery_depth |-> subquery_depth]

QueryTree_SCOPE_EXIT(f) ==
    [current_context |-> f.current_scope_context_ptr,
     subquery_depth |-> subquery_depth]

InDepth_exit(f) ==
    [current_context |-> current_context, subquery_depth |-> subquery_depth]

ExitOf(f) ==
    CASE f.visitor = "InDepthQueryTreeVisitorWithContext" -> WithContext_SCOPE_EXIT(f)
      [] f.visitor = "QueryTreeVisitor" -> QueryTree_SCOPE_EXIT(f)
      [] OTHER -> InDepth_exit(f)

\* A new frame: the locals of a visit call of class v on node n.  entry_context
\* and entry_depth remember the members as they were when the call began,
\* level how many visit calls are active with it.
Frame(v, n, level) ==
    [visitor |-> v, node |-> n, step |-> 1, index |-> 0,
     current_scope_context_ptr |-> current_context,
     entry_context |-> current_context, entry_depth |-> subquery_depth,
     level |-> level]

\* A call as the trace records it: the callee, the class and node of the visit
\* call that makes it, its argument and outcome, and the members the callee
\* can read through getContext() and getSubqueryDepth().
Event(op, f, n, arg, res, m) ==
    [op |-> op, visitor |-> f.visitor, node |-> n, arg |-> arg, result |-> res,
     context |-> m.current_context, depth |-> m.subquery_depth,
     entry_context |-> f.entry_context, entry_depth |-> f.entry_depth,
     level |-> f.level]

Members == [current_context |-> current_context, subquery_depth |-> subquery_depth]

\* ---------------------------------------------------------- the actions
\* visit(n) of class v is called with stk the stack at the call and evs the
\* calls made just before it.
Call(v, n, stk, evs) ==
    /\ stack' = Append(stk, Frame(v, n, Len(stk) + 1))
    /\ current_context' = EntryOf(v, n).current_context
    /\ subquery_depth' = EntryOf(v, n).subquery_depth
    /\ trace' = evs \o <<Event("visit", Frame(v, n, Len(stk) + 1), n, Null, "call", Members)>>
    /\ status' = "running"

\* The top call goes on with f as its frame.
Continue(f, evs) ==
    /\ stack' = SetTop(f)
    /\ trace' = evs
    /\ UNCHANGED <<current_context, subquery_depth, status>>

\* A callee threw: the exception starts to propagate.
Throw(evs) ==
    /\ status' = "throwing"
    /\ trace' = evs
    /\ UNCHANGED <<current_context, subquery_depth, stack>>

\* The caller of the call that ends catches the exception and goes on.
Exit_caught_by_caller(how) ==
    /\ stack' = SubSeq(stack, 1, Len(stack) - 1)
    /\ current_context' = ExitOf(Top).current_context
    /\ subquery_depth' = ExitOf(Top).subquery_depth
    /\ trace' = Append(trace, Event("exit", Top, Top.node, Null, how, ExitOf(Top)))
    /\ status' = IF Len(stack) > 1 THEN "running"
                 ELSE IF how = "return" THEN "done" ELSE "failed"

\* The top call ends (how: "return" or "unwind"): its SCOPE_EXIT runs and
\* control is back in its caller.
Exit(how) ==
    /\ stack' = SubSeq(stack, 1, Len(stack) - 1)
    /\ current_context' = ExitOf(Top).current_context
    /\ subquery_depth' = ExitOf(Top).subquery_depth
    /\ trace' = Append(trace, Event("exit", Top, Top.node, Null, how, ExitOf(Top)))
    /\ status' = IF Len(stack) > 1 THEN status
                 ELSE IF how = "return" THEN "done" ELSE "failed"

Running(v, pc) ==
    /\ status = "running"
    /\ stack # <<>>
    /\ Top.visitor = v
    /\ Pc(Top) = pc

\* The caller invokes visit on the root of the tree.
TopLevelVisit ==
    /\ status = "idle"
    /\ Call(visitor, Root, stack, trace)
    /\ UNCHANGED tree_vars

\* The loop without its null check.
ChildPresent_unchecked(child) == TRUE

\* if (!child) continue;
ChildPresent(child) == child # Null

\* A conditional visitor with a needChildVisit of its own.
needChildVisit_overridden(v) == {"true", "false", "throw"}

\* What needChildVisit of a visitor of class v may answer: the conditional
\* visitor inherits the default, a derived class defines its own.
needChildVisit(v) ==
    IF v = "InDepthQueryTreeConditionalVisitor" THEN {"true"}
    ELSE {"true", "false", "throw"}

\* The loop visiting the child whatever needChildVisit answered.
VisitChildrenStep_ignores_answer(f) ==
    LET slots == ChildrenOf(f.node)
    IN IF f.index >= Len(slots) THEN Continue(Advance(f), trace)
       ELSE LET child == slots[f.index + 1]
            IN IF ~ChildPresent(child) THEN Continue(NextSlot(f), trace)
               ELSE \E r \in needChildVisit(f.visitor) :
                      LET evs == Append(trace,
                                   Event("needChildVisit", f, child, f.node, r, Members))
                      IN IF r = "throw" THEN Throw(evs)
                         ELSE Call(f.visitor, child, SetTop(NextSlot(f)), evs)

\* One iteration of the range-for of visitChildren of the top call (classes
\* with needChildVisit), or its end.
VisitChildrenStep(f) ==
    LET slots == ChildrenOf(f.node)
    IN IF f.index >= Len(slots) THEN Continue(Advance(f), trace)
       ELSE LET child == slots[f.index + 1]
            IN IF ~ChildPresent(child) THEN Continue(NextSlot(f), trace)
               ELSE \E r \in needChildVisit(f.visitor) :
                      LET evs == Append(trace,
                                   Event("needChildVisit", f, child, f.node, r, Members))
                      IN CASE r = "true" -> Call(f.visitor, child, SetTop(NextSlot(f)), evs)
                           [] r = "false" -> Continue(NextSlot(f), evs)
                           [] r = "throw" -> Throw(evs)

\* getDerived().visitImpl / leaveImpl of a derived class: arbitrary code.
HandlerStep(op, f) ==
    \E r \in {"return", "throw"} :
        LET evs == Append(trace, Event(op, f, f.node, Null, r, Members))
        IN IF r = "return" THEN Continue(Advance(f), evs) ELSE Throw(evs)

InDepth_visitImpl ==
    /\ Running("InDepthQueryTreeVisitor", "visitImpl")
    /\ HandlerStep("visitImpl", Top)
    /\ UNCHANGED tree_vars

InDepth_visitChildren ==
    /\ status = "running" /\ stack # <<>>
    /\ Top.visitor \in {"InDepthQueryTreeVisitor", "InDepthQueryTreeConditionalVisitor"}
    /\ Pc(Top) = "visitChildren"
    /\ VisitChildrenStep(Top)
    /\ UNCHANGED tree_vars

InDepth_return ==
    /\ status = "running" /\ stack # <<>>
    /\ Top.visitor \in {"InDepthQueryTreeVisitor", "InDepthQueryTreeConditionalVisitor"}
    /\ Pc(Top) = "return"
    /\ Exit("return")
    /\ UNCHANGED tree_vars

WithContext_visitImpl ==
    /\ Running("InDepthQueryTreeVisitorWithContext", "visitImpl")
    /\ HandlerStep("visitImpl", Top)
    /\ UNCHANGED tree_vars

WithContext_visitChildren ==
    /\ Running("InDepthQueryTreeVisitorWithContext", "visitChildren")
    /\ VisitChildrenStep(Top)
    /\ UNCHANGED tree_vars

WithContext_leaveImpl ==
    /\ Running("InDepthQueryTreeVisitorWithContext", "leaveImpl")
    /\ HandlerStep("leaveImpl", Top)
    /\ UNCHANGED tree_vars

WithContext_return ==
    /\ Running("InDepthQueryTreeVisitorWithContext", "return")
    /\ Exit("return")
    /\ UNCHANGED tree_vars

\* The condition functor, then visitor.visit(query_tree_node) of the inner
\* visitor, whose return ends visitImpl.
Conditional_visitImpl ==
    /\ Running("InDepthQueryTreeConditionalVisitor", "visitImpl")
    /\ \E r \in {IF Top.node \in condition THEN "true" ELSE "false", "throw"} :
         LET evs == Append(trace, Event("condition", Top, Top.node, Null, r, Members))
         IN CASE r = "true" ->
                   Call("InDepthQueryTreeVisitor", Top.node, SetTop(Advance(Top)), evs)
              [] r = "false" -> Continue(Advance(Top), evs)
              [] r = "throw" -> Throw(evs)
    /\ UNCHANGED tree_vars

\* The index taken as one-based.
shouldSkipSubtree_one_based(parent, subtree_index) ==
    IF NodeTypeOf(parent) = "TableFunctionNode"
    THEN (subtree_index + 1) \in unresolved_indexes[parent]
    ELSE FALSE

shouldSkipSubtree(parent, subtree_index) ==
    IF NodeTypeOf(parent) = "TableFunctionNode"
    THEN subtree_index \in unresolved_indexes[parent]
    ELSE FALSE

\* apply run whatever needApply answered.
QueryTree_apply_unconditional ==
    /\ Running("QueryTreeVisitor", "apply")
    /\ \E r \in {"true", "false", "throw"} :
         LET evs == Append(trace, Event("needApply", Top, Top.node, Null, r, Members))
         IN IF r = "throw" THEN Throw(evs)
            ELSE \E a \in {"return", "throw"} :
                   LET evs2 == Append(evs, Event("apply", Top, Top.node, Null, a, Members))
                   IN IF a = "return" THEN Continue(Advance(Top), evs2) ELSE Throw(evs2)
    /\ UNCHANGED tree_vars

\* if (needApply(node)) getImpl().apply(node);
QueryTree_apply ==
    /\ Running("QueryTreeVisitor", "apply")
    /\ \E r \in {"true", "false", "throw"} :
         LET evs == Append(trace, Event("needApply", Top, Top.node, Null, r, Members))
         IN CASE r = "true" ->
                   \E a \in {"return", "throw"} :
                      LET evs2 == Append(evs, Event("apply", Top, Top.node, Null, a, Members))
                      IN IF a = "return" THEN Continue(Advance(Top), evs2) ELSE Throw(evs2)
              [] r = "false" -> Continue(Advance(Top), evs)
              [] r = "throw" -> Throw(evs)
    /\ UNCHANGED tree_vars

\* The loop advancing index only for non-null children.
QueryTree_visitChildren_counts_children ==
    /\ Running("QueryTreeVisitor", "visitChildren")
    /\ LET f == Top
           slots == ChildrenOf(f.node)
           index == Cardinality({k \in 1 .. f.index : slots[k] # Null})
       IN IF f.index >= Len(slots) THEN Continue(Advance(f), trace)
          ELSE LET child == slots[f.index + 1]
               IN IF ~ChildPresent(child) THEN Continue(NextSlot(f), trace)
                  ELSE LET skip == shouldSkipSubtree(f.node, index)
                           evs == Append(trace,
                                    Event("shouldSkipSubtree", f, child, index,
                                          IF skip THEN "true" ELSE "false", Members))
                       IN IF skip THEN Continue(NextSlot(f), evs)
                          ELSE Call(f.visitor, child, SetTop(NextSlot(f)), evs)
    /\ UNCHANGED tree_vars

\* One iteration of the range-for of QueryTreeVisitor::visitChildren, or its end.
QueryTree_visitChildren ==
    /\ Running("QueryTreeVisitor", "visitChildren")
    /\ LET f == Top
           slots == ChildrenOf(f.node)
       IN IF f.index >= Len(slots) THEN Continue(Advance(f), trace)
          ELSE LET child == slots[f.index + 1]
               IN IF ~ChildPresent(child) THEN Continue(NextSlot(f), trace)
                  ELSE LET skip == shouldSkipSubtree(f.node, f.index)
                           evs == Append(trace,
                                    Event("shouldSkipSubtree", f, child, f.index,
                                          IF skip THEN "true" ELSE "false", Members))
                       IN IF skip THEN Continue(NextSlot(f), evs)
                          ELSE Call(f.visitor, child, SetTop(NextSlot(f)), evs)
    /\ UNCHANGED tree_vars

QueryTree_return ==
    /\ Running("QueryTreeVisitor", "return")
    /\ Exit("return")
    /\ UNCHANGED tree_vars

\* leaveImpl called from the SCOPE_EXIT, so also while an exception unwinds.
Unwind_runs_leaveImpl ==
    /\ status = "throwing"
    /\ stack # <<>>
    /\ stack' = SubSeq(stack, 1, Len(stack) - 1)
    /\ current_context' = ExitOf(Top).current_context
    /\ subquery_depth' = ExitOf(Top).subquery_depth
    /\ trace' = trace \o
                  (IF Top.visitor = "InDepthQueryTreeVisitorWithContext"
                   THEN <<Event("leaveImpl", Top, Top.node, Null, "return", Members)>>
                   ELSE <<>>)
                  \o <<Event("exit", Top, Top.node, Null, "unwind", ExitOf(Top))>>
    /\ status' = IF Len(stack) > 1 THEN status ELSE "failed"
    /\ UNCHANGED tree_vars

\* An exception leaves the top call: its SCOPE_EXIT runs, nothing else of it.
Unwind ==
    /\ status = "throwing"
    /\ stack # <<>>
    /\ Exit("unwind")
    /\ UNCHANGED tree_vars

\* ------------------------------------------------ checkTypesOfKeys
\* A data type is the sequence of its nested type constructors, outermost
\* first: LowCardinality(Nullable(Int64)) is <<"LowCardinality", "Nullable",
\* "Int64">>.
KeyTypes ==
    {<<"Int64">>, <<"Nullable", "Int64">>, <<"LowCardinality", "Int64">>,
     <<"LowCardinality", "String">>, <<"LowCardinality", "Nullable", "Int64">>,
     <<"Array", "Int64">>, <<"Array", "LowCardinality", "Int64">>}

\* removeNullable: the nested type of a Nullable, any other type as it is.
removeNullable(type) == IF Head(type) = "Nullable" THEN Tail(type) ELSE type

\* recursiveRemoveLowCardinality: the type without LowCardinality at any depth.
recursiveRemoveLowCardinality(type) == SelectSeq(type, LAMBDA c : c # "LowCardinality")

\* IDataType::equals
equals(a, b) == a = b

\* The sequences of n elements of S.
SeqsOfLen(S, n) == [1 .. n -> S]

\* A join clause: for key i, left_types[i] is the type of the column
\* key_names_left[i] of left_block and right_types[i] the type of the column
\* key_names_right[i] of right_sample_block.
JoinClauses ==
    UNION {[left_types : SeqsOfLen(KeyTypes, n), right_types : SeqsOfLen(KeyTypes, n)] :
             n \in 1 .. MaxKeys}

getOnlyClause == clauses[1]

\* A check that lets two clauses through.
clauses_supported_up_to_two(size) == size \in {1, 2}

\* !(table_join->getClauses().size() != 1)
clauses_supported(size) == size = 1

\* A comparison of the types as they are.
keys_match_exact(left_type, right_type) == equals(left_type, right_type)

\* removeNullable(left_type)->equals(*removeNullable(right_type))
keys_match(left_type, right_type) ==
    equals(removeNullable(left_type), removeNullable(right_type))

\* Nullable removed before LowCardinality.
equals_up_to_lc_nullable_first(left_type, right_type) ==
    equals(recursiveRemoveLowCardinality(removeNullable(left_type)),
           recursiveRemoveLowCardinality(removeNullable(right_type)))

equals_up_to_lc(left_type, right_type) ==
    LET left_type_no_lc == removeNullable(recursiveRemoveLowCardinality(left_type))
        right_type_no_lc == removeNullable(recursiveRemoveLowCardinality(right_type))
    IN equals(left_type_no_lc, right_type_no_lc)

JoinThrow(code) ==
    /\ join_pc' = "failed"
    /\ error_code' = code

\* if (table_join->getClauses().size() != 1) throw ...; onexpr = getOnlyClause()
Join_checkClauses ==
    /\ join_pc = "checkClauses"
    /\ IF ~clauses_supported(Len(clauses))
       THEN JoinThrow("NOT_IMPLEMENTED")
       ELSE join_pc' = "loop" /\ UNCHANGED error_code
    /\ UNCHANGED <<clauses, key_index, compared, traversal_vars>>

\* One iteration of the loop over the keys of the only clause.
Join_checkKey ==
    /\ join_pc = "loop"
    /\ key_index < Len(getOnlyClause.left_types)
    /\ LET left_type == getOnlyClause.left_types[key_index + 1]
           right_type == getOnlyClause.right_types[key_index + 1]
       IN /\ compared' = compared + 1
          /\ IF ~keys_match(left_type, right_type)
             THEN /\ JoinThrow(IF equals_up_to_lc(left_type, right_type)
                               THEN "NOT_IMPLEMENTED" ELSE "TYPE_MISMATCH")
                  /\ UNCHANGED key_index
             ELSE /\ key_index' = key_index + 1
                  /\ UNCHANGED <<join_pc, error_code>>
    /\ UNCHANGED <<clauses, traversal_vars>>

\* The loop ends: checkTypesOfKeys returns.
Join_return ==
    /\ join_pc = "loop"
    /\ key_index >= Len(getOnlyClause.left_types)
    /\ join_pc' = "passed"
    /\ UNCHANGED <<clauses, key_index, compared, error_code, traversal_vars>>

\* No join is being checked.
JoinIdle ==
    /\ clauses = <<>>
    /\ join_pc = "idle"
    /\ key_index = 0
    /\ compared = 0
    /\ error_code = "none"

\* No tree is being traversed.
TraversalIdle ==
    /\ visitor = "InDepthQueryTreeVisitor"
    /\ children = [n \in Nodes |-> <<>>]
    /\ parent_of = [n \in Nodes |-> Null]
    /\ node_type = [n \in Nodes |-> "Other"]
    /\ unresolved_indexes = [n \in Nodes |-> {}]
    /\ traverse_top_to_bottom = TRUE
    /\ condition = {}
    /\ initial_subquery_depth = 0
    /\ current_context = Ctx(0)
    /\ subquery_depth = 0
    /\ stack = <<>>
    /\ status = "idle"
    /\ trace = <<>>

\* checkTypesOfKeys is called on a join of one to MaxClauses clauses.
JoinInit ==
    /\ TraversalIdle
    /\ \E c \in JoinClauses, n \in 1 .. MaxClauses : clauses = [k \in 1 .. n |-> c]
    /\ join_pc = "checkClauses"
    /\ key_index = 0
    /\ compared = 0
    /\ error_code = "none"

JoinNext ==
    \/ Join_checkClauses
    \/ Join_checkKey
    \/ Join_return

JoinSpec == JoinInit /\ [][JoinNext]_vars

\* ------------------------------------------------------ the specification
\* getUnresolvedArgumentIndexes() of every node: the table function nodes of
\* a tree share one set of indexes, cut to the slots each of them has.
UnresolvedChoices(v, shape, types) ==
    {[n \in Nodes |-> IF types[n] = "TableFunctionNode"
                      THEN u \cap (0 .. (Len(shape[n]) - 1)) ELSE {}] :
        u \in IF v = "QueryTreeVisitor" /\ (\E n \in Nodes : types[n] = "TableFunctionNode")
              THEN SUBSET {0, 1} ELSE {{}}}

Init ==
    /\ visitor \in Visitors
    /\ children \in TreeShapes
    /\ parent_of = [n \in Nodes |->
                   IF \E p \in Nodes : n \in Range(children[p])
                   THEN CHOOSE p \in Nodes : n \in Range(children[p])
                   ELSE Null]
    /\ node_type \in [Nodes -> TypesSeenBy(visitor)]
    /\ unresolved_indexes \in UnresolvedChoices(visitor, children, node_type)
    /\ traverse_top_to_bottom \in BOOLEAN
    /\ condition \in (IF visitor = "InDepthQueryTreeConditionalVisitor"
                      THEN SUBSET Nodes ELSE {{}})
    /\ initial_subquery_depth \in (IF visitor = "InDepthQueryTreeVisitorWithContext"
                                   THEN {0, MaxInitialDepth} ELSE {0})
    /\ current_context = Ctx(0)
    /\ subquery_depth = initial_subquery_depth
    /\ stack = <<>>
    /\ status = "idle"
    /\ trace = <<>>
    /\ JoinIdle

Next ==
    \/ TopLevelVisit
    \/ InDepth_visitImpl
    \/ InDepth_visitChildren
    \/ InDepth_return
    \/ WithContext_visitImpl
    \/ WithContext_visitChildren
    \/ WithContext_leaveImpl
    \/ WithContext_return
    \/ Conditional_visitImpl
    \/ QueryTree_apply
    \/ QueryTree_visitChildren
    \/ QueryTree_return
    \/ Unwind

Spec == Init /\ [][Next]_vars

\* A traversal driven by a context-tracking visitor.
WithContextInit == Init /\ visitor = "InDepthQueryTreeVisitorWithContext"

WithContextNext ==
    \/ TopLevelVisit
    \/ WithContext_visitImpl
    \/ WithContext_visitChildren
    \/ WithContext_leaveImpl
    \/ WithContext_return
    \/ Unwind

WithContextSpec == WithContextInit /\ [][WithContextNext]_vars

\* A traversal driven by a rule-application visitor.
QueryTreeInit == Init /\ visitor = "QueryTreeVisitor"

QueryTreeNext ==
    \/ TopLevelVisit
    \/ QueryTree_apply
    \/ QueryTree_visitChildren
    \/ QueryTree_return
    \/ Unwind

QueryTreeSpec == QueryTreeInit /\ [][QueryTreeNext]_vars

\* ------------------------------------------- handlers that change the tree
\* visitImpl and apply take the node as QueryTreeNodePtr &, a reference to
\* the slot that holds it (a child slot of its parent, or the caller's
\* pointer for the root), so a handler of a non-const visitor can put another
\* node in the slot or change the children of the node.  The nodes a handler
\* can attach are the roots of the detached trees.
Detached == {d \in Nodes : parent_of[d] = Null /\ (stack # <<>> => d # stack[1].node)}

\* What the handler of the visit call f may do to the tree: nothing, replace
\* the node in the visited slot by a detached one, append a detached node to
\* the children of the node, or remove its last child.
Mutations(f) ==
    {[kind |-> "none", by |-> Null]}
    \cup {[kind |-> k, by |-> d] : k \in {"replace", "append"}, d \in Detached}
    \cup (IF ChildrenOf(f.node) # <<>> THEN {[kind |-> "drop", by |-> Null]} ELSE {})

\* The node the visited slot holds after the mutation mu.
SlotAfter(f, mu) == IF mu.kind = "replace" THEN mu.by ELSE f.node

\* visit taking the node pointer by value: it goes on with the node it got.
VisitedAfter_by_value(f, mu) == f.node

\* The node visit goes on with after the handler: query_tree_node is a
\* reference, so it is what the slot holds now.
VisitedAfter(f, mu) == SlotAfter(f, mu)

\* getChildren() of every node after the mutation mu by the top call f.
ChildrenAfter(f, mu) ==
    CASE mu.kind = "replace" ->
           IF Len(stack) > 1
           THEN [children EXCEPT ![stack[Len(stack) - 1].node][stack[Len(stack) - 1].index] = mu.by]
           ELSE children
      [] mu.kind = "append" -> [children EXCEPT ![f.node] = Append(@, mu.by)]
      [] mu.kind = "drop" -> [children EXCEPT ![f.node] = SubSeq(@, 1, Len(@) - 1)]
      [] OTHER -> children

ParentAfter(f, mu) ==
    CASE mu.kind = "replace" ->
           [parent_of EXCEPT ![mu.by] = parent_of[f.node], ![f.node] = Null]
      [] mu.kind = "append" -> [parent_of EXCEPT ![mu.by] = f.node]
      [] mu.kind = "drop" ->
           [parent_of EXCEPT ![children[f.node][Len(children[f.node])]] = Null]
      [] OTHER -> parent_of

\* A handler call (op) of the top call f that changes the tree by mu and
\* returns or throws; evs are the calls made just before it.  The call is
\* recorded with the node it got, the node the slot holds after it and the
\* children before and after it.
MutatingHandlerStep(op, f, evs) ==
    \E r \in {"return", "throw"}, mu \in Mutations(f) :
        LET after == [node |-> SlotAfter(f, mu),
                      children_before |-> children[f.node],
                      children |-> ChildrenAfter(f, mu)[SlotAfter(f, mu)]]
            g == [f EXCEPT !.node = VisitedAfter(f, mu)]
        IN /\ children' = ChildrenAfter(f, mu)
           /\ parent_of' = ParentAfter(f, mu)
           /\ trace' = Append(evs, Event(op, f, f.node, after, r, Members))
           /\ stack' = SetTop(IF r = "return" THEN Advance(g) ELSE g)
           /\ status' = IF r = "return" THEN status ELSE "throwing"
           /\ UNCHANGED <<current_context, subquery_depth>>
           /\ UNCHANGED <<node_type, unresolved_indexes, visitor, traverse_top_to_bottom,
                          condition, initial_subquery_depth, join_vars>>

Mutating_InDepth_visitImpl ==
    /\ Running("InDepthQueryTreeVisitor", "visitImpl")
    /\ MutatingHandlerStep("visitImpl", Top, trace)

Mutating_WithContext_visitImpl ==
    /\ Running("InDepthQueryTreeVisitorWithContext", "visitImpl")
    /\ MutatingHandlerStep("visitImpl", Top, trace)

\* if (needApply(node)) getImpl().apply(node); with an apply that changes
\* the tree.
Mutating_QueryTree_apply ==
    /\ Running("QueryTreeVisitor", "apply")
    /\ \E r \in {"true", "false", "throw"} :
         LET evs == Append(trace, Event("needApply", Top, Top.node, Null, r, Members))
         IN CASE r = "true" -> MutatingHandlerStep("apply", Top, evs)
              [] r = "false" -> Continue(Advance(Top), evs) /\ UNCHANGED tree_vars
              [] r = "throw" -> Throw(evs) /\ UNCHANGED tree_vars

\* The forests over Nodes: the tree of Root and detached trees.
Forests ==
    {ChildSlots(p, {}) : p \in {q \in [Nodes \ {Root} -> Nodes \cup {Null}] :
                                  \A n \in Nodes \ {Root} : q[n] = Null \/ q[n] < n}}

\* A traversal of a tree by a non-const visitor, with detached trees at hand.
MutatingInit ==
    /\ visitor \in {"InDepthQueryTreeVisitor", "InDepthQueryTreeVisitorWithContext",
                    "QueryTreeVisitor"}
    /\ children \in Forests
    /\ parent_of = [n \in Nodes |->
                   IF \E p \in Nodes : n \in Range(children[p])
                   THEN CHOOSE p \in Nodes : n \in Range(children[p])
                   ELSE Null]
    /\ node_type \in [Nodes -> IF visitor = "InDepthQueryTreeVisitor"
                               THEN {"Other"} ELSE {"QueryNode", "Other"}]
    /\ unresolved_indexes = [n \in Nodes |-> {}]
    /\ traverse_top_to_bottom \in BOOLEAN
    /\ condition = {}
    /\ initial_subquery_depth = 0
    /\ current_context = Ctx(0)
    /\ subquery_depth = initial_subquery_depth
    /\ stack = <<>>
    /\ status = "idle"
    /\ trace = <<>>
    /\ JoinIdle

MutatingNext ==
    \/ TopLevelVisit
    \/ Mutating_InDepth_visitImpl
    \/ InDepth_visitChildren
    \/ InDepth_return
    \/ Mutating_WithContext_visitImpl
    \/ WithContext_visitChildren
    \/ WithContext_leaveImpl
    \/ WithContext_return
    \/ Mutating_QueryTree_apply
    \/ QueryTree_visitChildren
    \/ QueryTree_return
    \/ Unwind

MutatingSpec == MutatingInit /\ [][MutatingNext]_vars

\* ------------------------------------------------------------ the claims
WithContext == "InDepthQueryTreeVisitorWithContext"
InDepth == "InDepthQueryTreeVisitor"
Conditional == "InDepthQueryTreeConditionalVisitor"
QueryTree == "QueryTreeVisitor"

Calls == DOMAIN trace

\* The calls of op made by visit calls of class v, in order.
CallsOf(op, v) == SelectSeq(trace, LAMBDA e : e.op = op /\ e.visitor = v)

NodesOf(s) == [i \in 1 .. Len(s) |-> s[i].node]

IsPrefix(s, t) == Len(s) <= Len(t) /\ SubSeq(t, 1, Len(s)) = s

\* trace only grows, one or two calls a step: what holds of the latest two
\* calls in every reachable state holds of every call ever made.
Latest == {i \in Calls : i >= Len(trace) - 1}

Last == trace[Len(trace)]

Ended == status \in {"done", "failed"}

\* The context of the nearest scope node on the path from the root to n, n
\* included, or the constructor's context.
RECURSIVE ScopeContext(_)
ScopeContext(n) ==
    IF IsScope(n) THEN getContext(n)
    ELSE IF n = Null \/ IsRoot(n) THEN Ctx(0)
    ELSE ScopeContext(ParentOf(n))

\* C1: in the plain and in the context-tracking visitor, visitImpl of a node
\* runs before visitImpl of each of its visited descendants when the order is
\* top to bottom, and after it when the order is bottom to top: when
\* visitImpl is called, an earlier visitImpl of an ancestor means top to
\* bottom, an earlier visitImpl of a descendant means bottom to top.
C1_VisitImplOrder ==
    (visitor \in {InDepth, WithContext} /\ trace # <<>> /\ Last.op = "visitImpl") =>
        \A i \in Calls :
            (i < Len(trace) /\ trace[i].op = "visitImpl") =>
                /\ trace[i].node \in ProperAncestors(Last.node) => traverse_top_to_bottom
                /\ Last.node \in ProperAncestors(trace[i].node) => ~traverse_top_to_bottom

\* A bottom-to-top traversal by the context-tracking visitor that called
\* visitImpl on a grandchild of the root and later on the root.
C1_Witness ==
    /\ visitor = WithContext
    /\ ~traverse_top_to_bottom
    /\ \E i, j \in Calls :
          /\ i < j
          /\ trace[i].op = "visitImpl" /\ trace[j].op = "visitImpl"
          /\ trace[j].node = Root
          /\ Cardinality(PathTo(trace[i].node)) = 3

\* C2: in the context-tracking visitor, when a visit call ends, by return or
\* by an exception, current_context and subquery_depth are what they were
\* when that call began; when the top-level visit has ended they are the
\* pre-traversal values.
C2_RestoreOnExit ==
    visitor = WithContext =>
        /\ (trace # <<>> /\ Last.op = "exit") =>
              /\ current_context = Last.entry_context
              /\ subquery_depth = Last.entry_depth
              /\ Last.context = Last.entry_context
              /\ Last.depth = Last.entry_depth
        /\ Ended => /\ current_context = Ctx(0)
                    /\ subquery_depth = initial_subquery_depth

\* A failed traversal in which an exception left the visit of a scope node
\* below the root that had rebound the context.
C2_Witness ==
    /\ visitor = WithContext
    /\ status = "failed"
    /\ \E i \in Calls :
          /\ trace[i].op = "exit" /\ trace[i].result = "unwind"
          /\ IsScope(trace[i].node)
          /\ trace[i].node # Root
          /\ trace[i].entry_context # getContext(trace[i].node)
          /\ trace[i].entry_context # Ctx(0)

\* C3: in the context-tracking visitor, the context a visitImpl call reads
\* is that of the nearest scope node on the path from the root to its node,
\* or the constructor's; while a visit call is the innermost active one,
\* also after an inner call ended by an exception, the current context is
\* that of its node; Scope(a) -> Scope(b) -> Leaf is seen as a, b, b.
C3_ContextOfNearestScope ==
    visitor = WithContext =>
        /\ \A i \in Latest :
              trace[i].op = "visitImpl" => trace[i].context = ScopeContext(trace[i].node)
        /\ stack # <<>> => current_context = ScopeContext(Top.node)
        /\ ( /\ status = "done"
             /\ traverse_top_to_bottom
             /\ ChildNodes(1) = {2} /\ ChildNodes(2) = {3}
             /\ IsScope(1) /\ IsScope(2) /\ ~IsScope(3)
             /\ NodesOf(CallsOf("visitImpl", WithContext)) = <<1, 2, 3>> )
           => [i \in 1 .. 3 |-> CallsOf("visitImpl", WithContext)[i].context]
                 = <<Ctx(1), Ctx(2), Ctx(2)>>

\* Three nested scope nodes: visitImpl of the innermost threw, the visit of
\* the middle one has been left, and the root's visit is the innermost
\* active call.
C3_Witness ==
    /\ visitor = WithContext
    /\ status = "throwing"
    /\ ChildNodes(1) = {2} /\ ChildNodes(2) = {3}
    /\ IsScope(1) /\ IsScope(2) /\ IsScope(3)
    /\ Len(stack) = 1
    /\ \E i \in Calls :
          /\ trace[i].op = "visitImpl" /\ trace[i].node = 3
          /\ trace[i].result = "throw"
          /\ trace[i].context = Ctx(3)
    /\ current_context = Ctx(1)

\* C4: in the context-tracking visitor, the depth visitImpl and leaveImpl of
\* a node read is the initial depth plus the number of nodes on the path
\* from the root to the node, whatever their types, and the depth is never
\* below the initial depth.
C4_DepthIsNesting ==
    visitor = WithContext =>
        /\ \A i \in Latest :
              trace[i].op \in {"visitImpl", "leaveImpl"} =>
                  trace[i].depth = initial_subquery_depth
                                     + Cardinality(PathTo(trace[i].node))
        /\ subquery_depth >= initial_subquery_depth

\* leaveImpl of a node two levels below the root, none of the three nodes a
\* scope node, reads the initial depth plus three.
C4_Witness ==
    /\ visitor = WithContext
    /\ initial_subquery_depth = MaxInitialDepth
    /\ \A n \in Nodes : ~IsScope(n)
    /\ \E i \in Calls :
          /\ trace[i].op = "leaveImpl"
          /\ Cardinality(PathTo(trace[i].node)) = 3
          /\ trace[i].depth = MaxInitialDepth + 3

\* How often op was called on node n by visit calls of class v.
Count(op, v, n) == Len(SelectSeq(trace, LAMBDA e : e.op = op /\ e.visitor = v /\ e.node = n))

\* C5 as claimed: once the condition is true for a node the wrapper treats
\* the node as a leaf, it does not evaluate the condition on the node's
\* children afterwards, and the inner visitor's visitImpl runs at most once
\* for any node.
C5_DelegatedNodeIsLeaf ==
    visitor = Conditional =>
        /\ \A n \in Nodes : Count("visitImpl", InDepth, n) <= 1
        /\ \A i, j \in Calls :
              ( /\ i < j
                /\ trace[i].op = "condition" /\ trace[i].result = "true"
                /\ trace[j].op = "condition" )
              => trace[j].node \notin ChildNodes(trace[i].node)

\* C5, amended: when the condition is true for a node the wrapper calls the
\* inner visitor's visit on it, and the wrapper still descends: it evaluates
\* the condition once on every node of the tree, so the inner visitor's
\* visitImpl runs on a node at most once per node of its root path for which
\* the condition is true, and at least once when it is true for the node.
C5_WrapperStillDescends ==
    visitor = Conditional =>
        /\ \A i \in Calls :
              (trace[i].op = "condition" /\ trace[i].result = "true") =>
                  /\ i < Len(trace)
                  /\ trace[i + 1].op = "visit"
                  /\ trace[i + 1].visitor = InDepth
                  /\ trace[i + 1].node = trace[i].node
        /\ \A n \in Nodes :
              /\ Count("condition", Conditional, n) <= 1
              /\ Count("visitImpl", InDepth, n) <= Cardinality(PathTo(n) \cap condition)
              /\ status = "done" => /\ Count("condition", Conditional, n) = 1
                                    /\ n \in condition => Count("visitImpl", InDepth, n) >= 1

\* A finished traversal in which the inner visitor's visitImpl ran twice on a
\* node: once under the delegation of its parent, once under its own.
C5_Witness ==
    /\ visitor = Conditional
    /\ status = "done"
    /\ \E n \in Nodes : n # Root /\ Count("visitImpl", InDepth, n) = 2

\* The child n sits in a slot its table function parent lists as unresolved.
InUnresolvedSlot(n) ==
    /\ ~IsRoot(n)
    /\ NodeTypeOf(ParentOf(n)) = "TableFunctionNode"
    /\ SlotOf(n) \in unresolved_indexes[ParentOf(n)]

Excluded(n) == \E m \in PathTo(n) : InUnresolvedSlot(m)

\* C6: the rule-application visitor never calls needApply or apply on the
\* child in an unresolved slot of a table function node nor on a descendant
\* of it, and a finished traversal has called needApply on every other node:
\* no other child is skipped.
C6_UnresolvedSlotsSkipped ==
    visitor = QueryTree =>
        /\ \A i \in Latest :
              trace[i].op \in {"visit", "needApply", "apply"} => ~Excluded(trace[i].node)
        /\ status = "done" =>
              \A n \in Nodes : ~Excluded(n) => Count("needApply", QueryTree, n) = 1

\* A finished traversal of a table function root with unresolved index 1:
\* the child in slot 1 was not visited, a child in another slot was.
C6_Witness ==
    /\ visitor = QueryTree
    /\ status = "done"
    /\ NodeTypeOf(Root) = "TableFunctionNode"
    /\ unresolved_indexes[Root] = {1}
    /\ \E n, m \in ChildNodes(Root) :
          /\ SlotOf(n) = 1
          /\ Count("needApply", QueryTree, n) = 0
          /\ SlotOf(m) # 1
          /\ Count("apply", QueryTree, m) = 1

\* C7: no visitor makes any call for a null child slot (no needChildVisit,
\* visit, visitImpl, shouldSkipSubtree, needApply or apply), and the loop
\* goes on after one: a finished traversal has consulted needChildVisit or
\* shouldSkipSubtree for every non-null child of every visited node.
C7_NullSlotsSkipped ==
    /\ \A i \in Latest : trace[i].node # Null
    /\ stack # <<>> => Top.node # Null
    /\ status = "done" =>
          \A i \in Calls :
              trace[i].op = "visit" =>
                  \A c \in ChildNodes(trace[i].node) :
                      \E j \in Calls :
                          /\ trace[j].op \in {"needChildVisit", "shouldSkipSubtree"}
                          /\ trace[j].node = c
                          /\ trace[j].visitor = trace[i].visitor

\* A finished traversal by the context-tracking visitor of a tree whose nodes
\* all start and end with a null slot, in which every node was visited.
C7_Witness ==
    /\ visitor = WithContext
    /\ status = "done"
    /\ \A n \in Nodes :
          /\ children[n][1] = Null
          /\ children[n][Len(children[n])] = Null
          /\ Count("visitImpl", WithContext, n) = 1

\* C8: after a call threw, no visitor makes another call: only the visit
\* calls that are active end, innermost first, each running its SCOPE_EXIT;
\* the exception reaches the caller of the top-level visit when all of them
\* have ended and the members are restored, and a traversal in which a call
\* threw never ends normally.
C8_ErrorPropagates ==
    /\ \A j \in Latest :
          (j > 1 /\ trace[j - 1].result \in {"throw", "unwind"}) =>
              trace[j].op = "exit" /\ trace[j].result = "unwind"
    /\ status \in {"throwing", "failed"}
          <=> (trace # <<>> /\ Last.result \in {"throw", "unwind"})
    /\ \A j \in Latest :
          /\ (j > 1 /\ trace[j - 1].result = "throw") => trace[j].level = trace[j - 1].level
          /\ (j > 1 /\ trace[j - 1].result = "unwind") => trace[j].level = trace[j - 1].level - 1
    /\ (trace # <<>> /\ Last.result = "throw") => Len(stack) = Last.level
    /\ (trace # <<>> /\ Last.result = "unwind") => Len(stack) = Last.level - 1
    /\ status = "throwing" => stack # <<>>
    /\ status = "failed" =>
          /\ stack = <<>>
          /\ current_context = Ctx(0)
          /\ subquery_depth = initial_subquery_depth

\* visitImpl of the first child of the root threw in the context-tracking
\* visitor: both active visit calls ended, the exception reached the caller
\* and the second child was never visited.
C8_Witness ==
    /\ visitor = WithContext
    /\ status = "failed"
    /\ ChildNodes(Root) = {2, 3}
    /\ \E i \in Calls :
          /\ trace[i].op = "visitImpl" /\ trace[i].node = 2
          /\ trace[i].result = "throw"
          /\ Len(trace) = i + 2
    /\ \A i \in Calls : trace[i].node # 3

\* The nodes in the order in which a depth-first walk of the subtree of n that
\* visits every child handles them.
RECURSIVE DepthFirstOrder(_), DepthFirstOrderOfSlots(_, _)
DepthFirstOrder(n) ==
    IF traverse_top_to_bottom
    THEN <<n>> \o DepthFirstOrderOfSlots(children[n], 1)
    ELSE DepthFirstOrderOfSlots(children[n], 1) \o <<n>>
DepthFirstOrderOfSlots(slots, k) ==
    IF k > Len(slots) THEN <<>>
    ELSE (IF slots[k] = Null THEN <<>> ELSE DepthFirstOrder(slots[k]))
         \o DepthFirstOrderOfSlots(slots, k + 1)

\* C9: with a condition that is false on every node the conditional visitor
\* evaluates the condition on the nodes, and in the order, in which the plain
\* visitor that visits every child calls visitImpl, and never calls the inner
\* visitor.
C9_FalseConditionIsPlainWalk ==
    /\ ( /\ visitor = InDepth
         /\ \A i \in Calls : trace[i].op = "needChildVisit" => trace[i].result = "true" )
       => /\ IsPrefix(NodesOf(CallsOf("visitImpl", InDepth)), DepthFirstOrder(Root))
          /\ status = "done" =>
                NodesOf(CallsOf("visitImpl", InDepth)) = DepthFirstOrder(Root)
    /\ (visitor = Conditional /\ condition = {})
       => /\ IsPrefix(NodesOf(CallsOf("condition", Conditional)), DepthFirstOrder(Root))
          /\ status = "done" =>
                NodesOf(CallsOf("condition", Conditional)) = DepthFirstOrder(Root)
          /\ \A i \in Calls : trace[i].visitor = Conditional

\* A finished bottom-to-top traversal by the conditional visitor with a
\* condition that is false everywhere, of a root with two children.
C9_Witness ==
    /\ visitor = Conditional
    /\ condition = {}
    /\ status = "done"
    /\ ~traverse_top_to_bottom
    /\ NodesOf(CallsOf("condition", Conditional)) = <<2, 3, 1>>

\* C10: in the rule-application visitor needApply and apply of a node read
\* the context of the nearest scope node on the root path of the node, or
\* the constructor's; when a visit call ends, by return or by an exception,
\* the current context is what it was when the call began.
C10_QueryTreeContext ==
    visitor = QueryTree =>
        /\ \A i \in Latest :
              trace[i].op \in {"needApply", "apply"} =>
                  trace[i].context = ScopeContext(trace[i].node)
        /\ (trace # <<>> /\ Last.op = "exit") =>
              /\ current_context = Last.entry_context
              /\ Last.context = Last.entry_context
        /\ Ended => current_context = Ctx(0)

\* apply of a scope node below a scope root threw while reading its own
\* context, and the exception has left both visit calls.
C10_Witness ==
    /\ visitor = QueryTree
    /\ status = "failed"
    /\ IsScope(Root)
    /\ \E i \in Calls :
          /\ trace[i].op = "apply" /\ trace[i].result = "throw"
          /\ trace[i].node # Root
          /\ IsScope(trace[i].node)
          /\ trace[i].context = getContext(trace[i].node)
    /\ \E i \in Calls :
          /\ trace[i].op = "exit" /\ trace[i].node # Root
          /\ trace[i].context = getContext(Root)

\* op was called on node n before call i.
CalledBefore(i, op, n) == \E j \in 1 .. (i - 1) : trace[j].op = op /\ trace[j].node = n

\* How often op answered res on node n in a visit call of class v.
CountResult(op, v, n, res) ==
    Len(SelectSeq(trace, LAMBDA e : e.op = op /\ e.visitor = v /\ e.node = n /\ e.result = res))

\* C11: in the rule-application visitor needApply is evaluated at most once
\* on a node and exactly once in every visit call that returns; apply is
\* called on a node exactly when needApply answered true on it, right after
\* that answer, and never on a node on which needApply answered false.
C11_ApplyIffNeedApply ==
    visitor = QueryTree =>
        /\ \A i \in Latest :
              /\ trace[i].op = "apply" =>
                    /\ i > 1
                    /\ trace[i - 1].op = "needApply"
                    /\ trace[i - 1].node = trace[i].node
                    /\ trace[i - 1].result = "true"
              /\ (trace[i].op = "needApply" /\ trace[i].result = "true") =>
                    /\ i < Len(trace)
                    /\ trace[i + 1].op = "apply"
                    /\ trace[i + 1].node = trace[i].node
        /\ \A i \in Latest :
              trace[i].op = "needApply" =>
                  /\ ~CalledBefore(i, "needApply", trace[i].node)
                  /\ ~CalledBefore(i, "apply", trace[i].node)
        /\ (trace # <<>> /\ Last.op = "exit" /\ Last.result = "return") =>
              CalledBefore(Len(trace), "needApply", Last.node)
        /\ status = "done" =>
              \A n \in Nodes :
                  /\ Count("needApply", QueryTree, n) = Count("visit", QueryTree, n)
                  /\ Count("apply", QueryTree, n)
                        = CountResult("needApply", QueryTree, n, "true")

\* A finished traversal in which needApply answered false on the root, which
\* was not applied, and true on a child of it, which was applied once.
C11_Witness ==
    /\ visitor = QueryTree
    /\ status = "done"
    /\ CountResult("needApply", QueryTree, Root, "false") = 1
    /\ Count("apply", QueryTree, Root) = 0
    /\ \E n \in ChildNodes(Root) :
          /\ CountResult("needApply", QueryTree, n, "true") = 1
          /\ Count("apply", QueryTree, n) = 1

\* checkTypesOfKeys has returned or thrown.
JoinEnded == join_pc \in {"passed", "failed"}

\* The keys of the only clause whose two types differ after removeNullable.
FailingKeys ==
    {k \in 1 .. Len(getOnlyClause.left_types) :
        removeNullable(getOnlyClause.left_types[k])
            # removeNullable(getOnlyClause.right_types[k])}

FirstFailingKey == CHOOSE k \in FailingKeys : \A j \in FailingKeys : k <= j

\* A type with LowCardinality removed at every depth and then Nullable.
Unwrapped(type) == removeNullable(recursiveRemoveLowCardinality(type))

\* C12: when the two types of a key differ after removeNullable,
\* checkTypesOfKeys throws NOT_IMPLEMENTED if they are equal after removing
\* LowCardinality at every depth and then Nullable (Int64 against
\* LowCardinality(Int64)) and TYPE_MISMATCH otherwise (Int64 against
\* LowCardinality(String)); the first such key in key order decides the
\* error, and no later key is compared.
C12_ErrorKindByUnwrapping ==
    (JoinEnded /\ Len(clauses) = 1 /\ FailingKeys # {}) =>
        LET left_type == getOnlyClause.left_types[FirstFailingKey]
            right_type == getOnlyClause.right_types[FirstFailingKey]
        IN /\ join_pc = "failed"
           /\ key_index + 1 = FirstFailingKey
           /\ compared = FirstFailingKey
           /\ error_code = IF Unwrapped(left_type) = Unwrapped(right_type)
                           THEN "NOT_IMPLEMENTED" ELSE "TYPE_MISMATCH"
           /\ (left_type = <<"Int64">> /\ right_type = <<"LowCardinality", "Int64">>)
                 => error_code = "NOT_IMPLEMENTED"
           /\ (left_type = <<"Int64">> /\ right_type = <<"LowCardinality", "String">>)
                 => error_code = "TYPE_MISMATCH"

\* Two failing keys: the first, LowCardinality(Nullable(Int64)) against Int64,
\* decided NOT_IMPLEMENTED although the second would be a TYPE_MISMATCH.
C12_Witness ==
    /\ join_pc = "failed"
    /\ Len(clauses) = 1
    /\ getOnlyClause.left_types = <<<<"LowCardinality", "Nullable", "Int64">>, <<"Int64">>>>
    /\ getOnlyClause.right_types = <<<<"Int64">>, <<"LowCardinality", "String">>>>
    /\ error_code = "NOT_IMPLEMENTED"
    /\ compared = 1

\* C13: for a join of one clause, checkTypesOfKeys returns without an error
\* whenever the two types of every key are equal after removeNullable:
\* Int64 against Nullable(Int64) passes, and so does Nullable(Int64) against
\* Int64.
C13_NullabilityAlonePasses ==
    (JoinEnded /\ Len(clauses) = 1 /\ FailingKeys = {}) =>
        /\ join_pc = "passed"
        /\ error_code = "none"
        /\ compared = Len(getOnlyClause.left_types)

\* A passed check of two keys: Int64 against Nullable(Int64), and
\* Nullable(Int64) against Int64.
C13_Witness ==
    /\ join_pc = "passed"
    /\ Len(clauses) = 1
    /\ getOnlyClause.left_types = <<<<"Int64">>, <<"Nullable", "Int64">>>>
    /\ getOnlyClause.right_types = <<<<"Nullable", "Int64">>, <<"Int64">>>>
    /\ error_code = "none"

\* C14 as claimed: a join with more than one join key is rejected before any
\* key types are compared, with an error of a kind that is neither that of
\* an unsupported feature (NOT_IMPLEMENTED) nor that of a type error
\* (TYPE_MISMATCH).
C14_StructuralErrorIsDistinct ==
    (JoinEnded /\ Len(clauses) > 1) =>
        /\ join_pc = "failed"
        /\ compared = 0
        /\ error_code \notin {"NOT_IMPLEMENTED", "TYPE_MISMATCH"}

\* C14, amended: checkTypesOfKeys rejects a join of more than one clause
\* before any key types are compared, with NOT_IMPLEMENTED, the error code
\* it also uses for types that are equal up to LowCardinality; a join of one
\* clause is not rejected for its number of key columns: its keys are
\* compared in order, all of them when the check passes.
C14_ClauseCountRejected ==
    JoinEnded =>
        /\ Len(clauses) > 1 =>
              /\ join_pc = "failed"
              /\ compared = 0
              /\ error_code = "NOT_IMPLEMENTED"
        /\ Len(clauses) = 1 =>
              /\ compared >= 1
              /\ join_pc = "passed" => compared = Len(getOnlyClause.left_types)

\* A join of two clauses whose first key would be a TYPE_MISMATCH: rejected
\* with NOT_IMPLEMENTED, no key compared.
C14_Witness ==
    /\ join_pc = "failed"
    /\ Len(clauses) = 2
    /\ getOnlyClause.left_types[1] = <<"Int64">>
    /\ getOnlyClause.right_types[1] = <<"LowCardinality", "String">>
    /\ error_code = "NOT_IMPLEMENTED"
    /\ compared = 0

\* The children of p on which needChildVisit was consulted before call i.
ConsultedBefore(i, p) ==
    {trace[j].node : j \in {k \in 1 .. (i - 1) :
                              trace[k].op = "needChildVisit" /\ trace[k].arg = p}}

\* The visit of node n that began before call i has ended before call i.
VisitEndedBefore(i, n) ==
    \A j \in 1 .. (i - 1) :
        (trace[j].op = "visit" /\ trace[j].node = n) =>
            \E k \in (j + 1) .. (i - 1) : trace[k].op = "exit" /\ trace[k].node = n

\* needChildVisit answered false on a node of the root path of n.
Refused(v, n) ==
    \E m \in PathTo(n) : CountResult("needChildVisit", v, m, "false") > 0

\* C15: in the plain and in the context-tracking visitor, needChildVisit is
\* consulted on the non-null children of a node in slot order, once each:
\* when it is consulted on a child it has been consulted on exactly the
\* children in earlier slots and the visits of those have ended; the visit
\* of a child directly follows a true answer on it; after a false answer
\* neither the child nor a descendant of it gets a visit, visitImpl,
\* leaveImpl or needChildVisit call.
C15_ChildrenLeftToRight ==
    visitor \in {InDepth, WithContext} =>
        /\ \A i \in Latest :
              /\ trace[i].op = "needChildVisit" =>
                    LET consulted == ConsultedBefore(i, trace[i].arg)
                    IN /\ trace[i].node \in ChildNodes(trace[i].arg)
                       /\ consulted = {s \in ChildNodes(trace[i].arg) :
                                          SlotOf(s) < SlotOf(trace[i].node)}
                       /\ \A s \in consulted : VisitEndedBefore(i, s)
                       /\ ~Refused(visitor, trace[i].arg)
              /\ (trace[i].op = "visit" /\ trace[i].node # Root) =>
                    /\ i > 1
                    /\ trace[i - 1].op = "needChildVisit"
                    /\ trace[i - 1].node = trace[i].node
                    /\ trace[i - 1].result = "true"
              /\ trace[i].op \in {"visit", "visitImpl", "leaveImpl"} =>
                    ~Refused(visitor, trace[i].node)
        /\ status = "done" =>
              \A n \in Nodes :
                  Count("visit", visitor, n) = 1 =>
                      \A c \in ChildNodes(n) : Count("needChildVisit", visitor, c) = 1

\* A finished traversal by the context-tracking visitor of a root with two
\* children: needChildVisit answered true on the first, whose visit ended
\* before it was consulted on the second, where it answered false; the
\* second child got no visitImpl call.
C15_Witness ==
    /\ visitor = WithContext
    /\ status = "done"
    /\ ChildNodes(Root) = {2, 3}
    /\ \E i, j, k \in Calls :
          /\ i < j /\ j < k
          /\ trace[i].op = "needChildVisit" /\ trace[i].node = 2 /\ trace[i].result = "true"
          /\ trace[j].op = "exit" /\ trace[j].node = 2
          /\ trace[k].op = "needChildVisit" /\ trace[k].node = 3 /\ trace[k].result = "false"
    /\ Count("visitImpl", WithContext, 3) = 0

\* The calls of op on node n before call i.
CallsBefore(i, op, n) == {j \in 1 .. (i - 1) : trace[j].op = op /\ trace[j].node = n}

VisitReturnedBefore(i, n) ==
    \E j \in 1 .. (i - 1) :
        trace[j].op = "exit" /\ trace[j].node = n /\ trace[j].result = "return"

\* C17: in the rule-application visitor one flag, TOP_TO_BOTTOM, fixes the
\* order for every node: when it is true, needApply of a node is evaluated
\* before anything is called for a child of the node, and a child is visited
\* only after needApply of its parent; when it is false, needApply of a node
\* is evaluated after the visit of each of its children that is not in an
\* unresolved slot has returned, and a child is visited before needApply of
\* its parent.  apply directly follows needApply.
C17_OrderIsPassConstant ==
    visitor = QueryTree =>
        \A i \in Latest :
            /\ trace[i].op = "needApply" =>
                  \A c \in ChildNodes(trace[i].node) :
                      IF traverse_top_to_bottom
                      THEN /\ ~CalledBefore(i, "visit", c)
                           /\ ~CalledBefore(i, "shouldSkipSubtree", c)
                      ELSE IF InUnresolvedSlot(c)
                           THEN ~CalledBefore(i, "visit", c)
                           ELSE VisitReturnedBefore(i, c)
            /\ (trace[i].op = "visit" /\ trace[i].node # Root) =>
                  IF traverse_top_to_bottom
                  THEN CalledBefore(i, "needApply", ParentOf(trace[i].node))
                  ELSE ~CalledBefore(i, "needApply", ParentOf(trace[i].node))
            /\ trace[i].op = "apply" => trace[i - 1].op = "needApply"

\* A finished bottom-to-top traversal of a table function root whose first
\* slot is unresolved: needApply ran on the child in the second slot, then
\* on the root, and never on the child in the first slot.
C17_Witness ==
    /\ visitor = QueryTree
    /\ ~traverse_top_to_bottom
    /\ status = "done"
    /\ NodeTypeOf(Root) = "TableFunctionNode"
    /\ unresolved_indexes[Root] = {0}
    /\ children[Root] = <<2, 3>>
    /\ NodesOf(CallsOf("needApply", QueryTree)) = <<3, 1>>

\* How often op was called, on any node.
Total(op) == Len(SelectSeq(trace, LAMBDA e : e.op = op))

\* leaveImpl of the root threw.
RootLeaveThrew == \E i \in Calls : /\ trace[i].op = "leaveImpl"
                                   /\ trace[i].node = Root
                                   /\ trace[i].result = "throw"

\* C18 as claimed: in the context-tracking visitor a visit call that an
\* exception leaves has not called leaveImpl unless leaveImpl raised it, its
\* context and depth restore does run, and on a failed traversal the number
\* of leaveImpl calls is smaller than the number of entered nodes.
C18_FewerLeavesOnFailure ==
    visitor = WithContext =>
        /\ (trace # <<>> /\ Last.op = "exit" /\ Last.result = "unwind") =>
              /\ CountResult("leaveImpl", WithContext, Last.node, "return") = 0
              /\ current_context = Last.entry_context
              /\ subquery_depth = Last.entry_depth
        /\ status = "failed" => Total("leaveImpl") < Total("visit")

\* C18, amended: in the context-tracking visitor leaveImpl is not part of
\* the cleanup: while an exception propagates no leaveImpl has returned for
\* a node whose visit call is active, and leaveImpl was called for such a
\* node only if it is the innermost one and its leaveImpl threw; the context
\* and depth restore of every call the exception leaves does run; on a
\* failed traversal fewer leaveImpl calls have returned than nodes were
\* entered, and fewer were made unless leaveImpl of the root threw.
C18_LeaveSkippedOnError ==
    visitor = WithContext =>
        /\ status = "throwing" =>
              \A k \in DOMAIN stack :
                  /\ CountResult("leaveImpl", WithContext, stack[k].node, "return") = 0
                  /\ Count("leaveImpl", WithContext, stack[k].node) > 0 =>
                        /\ Last.op \in {"leaveImpl", "exit"}
                        /\ \E i \in Calls : /\ trace[i].op = "leaveImpl"
                                            /\ trace[i].result = "throw"
                                            /\ trace[i].node = stack[k].node
                                            /\ trace[i].level = k
                                            /\ \A j \in Calls : j > i => trace[j].op = "exit"
        /\ (trace # <<>> /\ Last.op = "exit" /\ Last.result = "unwind") =>
              /\ CountResult("leaveImpl", WithContext, Last.node, "return") = 0
              /\ current_context = Last.entry_context
              /\ subquery_depth = Last.entry_depth
        /\ status = "failed" =>
              /\ Total("leaveImpl") - Total("visit") < (IF RootLeaveThrew THEN 1 ELSE 0)
              /\ RootLeaveThrew => Total("leaveImpl") = Total("visit")
              /\ \A n \in Nodes :
                    CountResult("leaveImpl", WithContext, n, "return") = 1
                        <=> CountResult("exit", WithContext, n, "return") = 1

\* A failed traversal of a root with two children: the first child was left
\* by leaveImpl and a return, visitImpl of the second threw, and neither the
\* second child nor the root got a leaveImpl call though both were restored.
C18_Witness ==
    /\ visitor = WithContext
    /\ status = "failed"
    /\ children[Root] = <<2, 3>>
    /\ Count("leaveImpl", WithContext, 2) = 1
    /\ CountResult("visitImpl", WithContext, 3, "throw") = 1
    /\ Count("leaveImpl", WithContext, 3) = 0
    /\ Count("leaveImpl", WithContext, Root) = 0
    /\ CountResult("exit", WithContext, 3, "unwind") = 1
    /\ CountResult("exit", WithContext, Root, "unwind") = 1
    /\ Total("leaveImpl") = 1 /\ Total("visit") = 3

\* C19: in the rule-application visitor the index shouldSkipSubtree gets for
\* a child is the position of the child's slot among all slots of its
\* parent, null slots included; the child skipped for an unresolved index i
\* of a table function node is the one held in slot i, and a finished
\* traversal has visited the children of a visited node in all other slots.
C19_IndexCountsNullSlots ==
    visitor = QueryTree =>
        /\ \A i \in Latest :
              trace[i].op = "shouldSkipSubtree" =>
                  LET p == ParentOf(trace[i].node)
                  IN /\ p # Null
                     /\ trace[i].arg < Len(children[p])
                     /\ children[p][trace[i].arg + 1] = trace[i].node
                     /\ trace[i].result = "true"
                           <=> /\ NodeTypeOf(p) = "TableFunctionNode"
                               /\ trace[i].arg \in unresolved_indexes[p]
        /\ status = "done" =>
              \A p \in Nodes : \A k \in 0 .. (Len(children[p]) - 1) :
                  (Count("visit", QueryTree, p) = 1 /\ children[p][k + 1] # Null) =>
                      Count("visit", QueryTree, children[p][k + 1])
                          = (IF k \in unresolved_indexes[p] THEN 0 ELSE 1)

\* A finished traversal of a table function root with the slots null, 2, 3,
\* null and the unresolved index 1: the first non-null child, held in slot
\* 1, was skipped, and the second non-null child was visited.
C19_Witness ==
    /\ visitor = QueryTree
    /\ status = "done"
    /\ NodeTypeOf(Root) = "TableFunctionNode"
    /\ children[Root] = <<Null, 2, 3, Null>>
    /\ unresolved_indexes[Root] = {1}
    /\ Count("visit", QueryTree, 2) = 0
    /\ Count("visit", QueryTree, 3) = 1
    /\ \E i \in Calls : /\ trace[i].op = "shouldSkipSubtree"
                        /\ trace[i].node = 2 /\ trace[i].arg = 1
                        /\ trace[i].result = "true"

Handlers == {"visitImpl", "apply"}

Consults == {"needChildVisit", "shouldSkipSubtree"}

\* The visit event of the visit call that makes call i.
CallStart(i) ==
    CHOOSE j \in 1 .. i :
        /\ trace[j].op = "visit" /\ trace[j].level = trace[i].level
        /\ \A k \in (j + 1) .. i : ~(trace[k].op = "visit" /\ trace[k].level = trace[i].level)

\* The handler calls the visit call of call i made before call i.
HandlersOfCall(i) ==
    {h \in (CallStart(i) + 1) .. (i - 1) :
        trace[h].op \in Handlers /\ trace[h].level = trace[i].level}

\* The consultations about a child between calls a and b by calls of level l.
ConsultsBetween(a, b, l) ==
    {j \in (a + 1) .. (b - 1) : trace[j].op \in Consults /\ trace[j].level = l}

\* The context visit chose on entry for the handler call e, from the node the
\* slot held then.
ContextChosenFor(e) ==
    IF e.visitor = InDepth THEN Ctx(0)
    ELSE IF IsScope(e.node) THEN getContext(e.node)
    ELSE e.entry_context

\* C20: in top-to-bottom order the descent that follows visitImpl or apply
\* goes through the children of the node the visited slot holds after the
\* handler ran, all of them when the call returns, under the context chosen
\* from the node the slot held before the handler ran; in bottom-to-top order
\* every child is consulted before the handler runs: the children gone
\* through are those of the node before the handler ran, each the node its
\* slot held when its turn came.
C20_DescentAfterMutation ==
    \A i \in Latest :
        /\ trace[i].op \in Consults =>
              IF traverse_top_to_bottom
              THEN \A h \in HandlersOfCall(i) :
                     LET k == Cardinality(ConsultsBetween(h, i, trace[i].level)) + 1
                     IN /\ k <= Len(trace[h].arg.children)
                        /\ trace[i].node = trace[h].arg.children[k]
                        /\ trace[i].op = "needChildVisit" => trace[i].arg = trace[h].arg.node
                        /\ trace[i].context = trace[h].context
                        /\ trace[h].context = ContextChosenFor(trace[h])
              ELSE HandlersOfCall(i) = {}
        /\ (trace[i].op = "exit" /\ trace[i].result = "return" /\ traverse_top_to_bottom) =>
              \A h \in HandlersOfCall(i) :
                  Cardinality(ConsultsBetween(h, i, trace[i].level))
                      = Len(trace[h].arg.children)
        /\ (trace[i].op \in Handlers /\ ~traverse_top_to_bottom) =>
              LET s == CallStart(i)
                  l == trace[i].level
                  before == trace[i].arg.children_before
              IN /\ Cardinality(ConsultsBetween(s, i, l)) = Len(before)
                 /\ \A j \in ConsultsBetween(s, i, l) :
                       LET k == Cardinality(ConsultsBetween(s, j, l)) + 1
                       IN /\ trace[j].op = "needChildVisit" => trace[j].arg = trace[i].node
                          /\ \/ trace[j].node = before[k]
                             \/ \E g \in (j + 1) .. (i - 1) :
                                   /\ trace[g].op \in Handlers
                                   /\ trace[g].level = l + 1
                                   /\ trace[g].node = trace[j].node
                                   /\ trace[g].arg.node = before[k]

\* A top-to-bottom traversal by the context-tracking visitor in which
\* visitImpl replaced a node that is not a scope node by a scope node and
\* visitImpl of a child of the new node, not a child of the old one, then
\* read the context chosen for the old node, not the new node's.
C20_Witness ==
    /\ visitor = WithContext
    /\ traverse_top_to_bottom
    /\ \E h, i \in Calls :
          /\ h < i
          /\ trace[h].op = "visitImpl" /\ trace[i].op = "visitImpl"
          /\ trace[h].arg.node # trace[h].node
          /\ ~IsScope(trace[h].node) /\ IsScope(trace[h].arg.node)
          /\ trace[i].level = trace[h].level + 1
          /\ trace[i].node \in Range(trace[h].arg.children)
          /\ trace[i].node \notin Range(trace[h].arg.children_before)
          /\ ~IsScope(trace[i].node)
          /\ trace[i].context = trace[h].context
          /\ trace[i].context # getContext(trace[h].arg.node)

====
